---- MODULE Spec2Model ----
(***************************************************************************)
(* CognitionFlow: the three-agent conversation driven by run_workflow      *)
(* (src/src/cognitionflow/orchestration.py, agents.py) and the run         *)
(* lifecycle kept by the HTTP service (src/api/main.py, src/api/db.py).    *)
(*                                                                         *)
(* A message text is a sequence of tokens.  Each token stands for a piece  *)
(* of text that the code looks for, or for text it does not look at:       *)
(*   "txt"               prose or code without any marker                  *)
(*   "PIPELINE_COMPLETE" the completion token                              *)
(*   "FENCE_PY"          the opening fence: three backticks, python, \n    *)
(*   "NL_FENCE"          the closing fence: \n and three backticks         *)
(*   "FENCE"             three backticks that are neither of the above     *)
(*   "exitcode:"         the exit code marker, "Exitcode:" another casing  *)
(*   "0", "1"            the exit code that follows the marker             *)
(***************************************************************************)
EXTENDS Naturals, Sequences, FiniteSets, TLC

\* ------------------------------------------------------------------ bounds
MaxLen == 4      \* longest text, in tokens, given to the message classifier
MaxRuns == 3     \* runs the service is asked to start
MaxStreams == 2  \* stream requests the clients make
MaxCalls == 2    \* direct run_workflow calls a script makes, one after another
MaxRequests == 12  \* POST /run requests made where the rate limit is explored
MaxTicks == 3    \* times the clock advances there
TickSeconds == 30  \* seconds the clock advances at a time
MaxFiles == 3    \* entries of a scanned directory
MaxFrags == 2    \* fenced fragments joined into one text
MaxSaves == 4    \* save_run calls made on the runs table alone
MaxMsgs == 3     \* messages of a transcript given to select_next_speaker alone
MaxHalfHours == 3  \* times the clock advances where the cleanup is explored
HalfHour == 1800   \* seconds the clock advances at a time there

\* ------------------------------------------------------- program constants
max_round == 12  \* GroupChat(max_round=12)

NoneVal == "None"

\* ------------------------------------------------------------------- texts
TextTok == {"txt", "PIPELINE_COMPLETE", "FENCE_PY", "NL_FENCE", "FENCE",
            "exitcode:", "Exitcode:"}

Texts == UNION {[1..n -> TextTok] : n \in 0..MaxLen}

\* str.lower() on one token
Lower(t) == IF t = "Exitcode:" THEN "exitcode:" ELSE t

\* `sub in content` for the markers the code searches
Contains(content, tok) == \E i \in 1..Len(content) : content[i] = tok

ContainsLower(content, tok) == \E i \in 1..Len(content) : Lower(content[i]) = tok

\* three backticks anywhere in the text
HasFence(content) ==
    \E i \in 1..Len(content) : content[i] \in {"FENCE_PY", "NL_FENCE", "FENCE"}

\* re.findall(r"```python\n(.*?)\n```", content, re.DOTALL), scanning from p:
\* at an opening fence the lazy group runs to the first closing fence after
\* it and the scan resumes behind that fence; an opening fence with no
\* closing fence behind it matches nothing and the scan moves on by one.
RECURSIVE ExtractFrom_greedy(_, _)
ExtractFrom_greedy(content, p) ==
    IF p > Len(content) THEN <<>>
    ELSE IF content[p] = "FENCE_PY"
              /\ \E q \in (p+1)..Len(content) : content[q] = "NL_FENCE"
         THEN LET q == CHOOSE q \in (p+1)..Len(content) :
                          /\ content[q] = "NL_FENCE"
                          /\ \A k \in (q+1)..Len(content) :
                                content[k] # "NL_FENCE"
              IN  <<SubSeq(content, p+1, q-1)>>
                      \o ExtractFrom_greedy(content, q+1)
         ELSE ExtractFrom_greedy(content, p+1)

RECURSIVE ExtractFrom(_, _)
ExtractFrom(content, p) ==
    IF p > Len(content) THEN <<>>
    ELSE IF content[p] = "FENCE_PY"
              /\ \E q \in (p+1)..Len(content) : content[q] = "NL_FENCE"
         THEN LET q == CHOOSE q \in (p+1)..Len(content) :
                          /\ content[q] = "NL_FENCE"
                          /\ \A k \in (p+1)..(q-1) : content[k] # "NL_FENCE"
              IN  <<SubSeq(content, p+1, q-1)>> \o ExtractFrom(content, q+1)
         ELSE ExtractFrom(content, p+1)

_extract_code_blocks(content) == ExtractFrom(content, 1)

\* "```python\n" + inner + "\n```"
Fenced(inner) == <<"FENCE_PY">> \o inner \o <<"NL_FENCE">>

\* "```python\n" + inner, the closing fence left out
Unclosed(inner) == <<"FENCE_PY">> \o inner

\* prose[1] + block fs[1] + prose[2] + ... + block fs[n] + prose[n+1],
\* block i fenced when cl[i] and without its closing fence otherwise
RECURSIVE JoinFrom(_, _, _, _)
JoinFrom(fs, ps, cl, i) ==
    IF i > Len(fs) THEN ps[i]
    ELSE ps[i] \o (IF cl[i] THEN Fenced(fs[i]) ELSE Unclosed(fs[i]))
               \o JoinFrom(fs, ps, cl, i + 1)

\* the exitcode test made before the completion test
MsgType_exitFirst(content) ==
    LET t0 == "agent_message"
        t1 == IF Len(_extract_code_blocks(content)) > 0
                 THEN "code_generation" ELSE t0
        t2 == IF ContainsLower(content, "exitcode:")
                 THEN "code_execution" ELSE t1
        t3 == IF Contains(content, "PIPELINE_COMPLETE")
                 THEN "review_approved" ELSE t2
    IN  t3

\* the three  if  statements of _make_message_dict, in the order of the code:
\* a later one overwrites the type set by an earlier one
MsgType(content) ==
    LET t0 == "agent_message"
        t1 == IF Len(_extract_code_blocks(content)) > 0
                 THEN "code_generation" ELSE t0
        t2 == IF Contains(content, "PIPELINE_COMPLETE")
                 THEN "review_approved" ELSE t1
        t3 == IF ContainsLower(content, "exitcode:")
                 THEN "code_execution" ELSE t2
    IN  t3

_make_message_dict(sender, receiver, content) ==
    [type        |-> MsgType(content),
     name        |-> sender,
     sender      |-> sender,
     receiver    |-> receiver,
     content     |-> content,
     has_code    |-> Len(_extract_code_blocks(content)) > 0,
     code_blocks |-> _extract_code_blocks(content)]

\* agents.is_pipeline_complete
is_pipeline_complete(msg) == Contains(msg.content, "PIPELINE_COMPLETE")

\* ------------------------------------------------------------ conversation
Executor == "Executor"
Engineer == "Engineer"
Reviewer == "Reviewer"

\* message texts the agents produce in the runs explored
TEXT      == <<"txt">>
CODE      == <<"FENCE_PY", "txt", "NL_FENCE">>
APPROVE   == <<"PIPELINE_COMPLETE">>
FENCED_PC == <<"FENCE_PY", "PIPELINE_COMPLETE", "NL_FENCE">>
EXIT0     == <<"exitcode:", "0">>
EXIT1     == <<"exitcode:", "1">>
\* "long" stands for 80 characters of prose: two texts that begin with it
\* agree on their first 80 characters
LONG_TASK == <<"long", "txt">>
LONG_PC   == <<"long", "PIPELINE_COMPLETE">>

\* task prompts given to run_workflow
TaskPrompts == {LONG_TASK, <<"txt", "PIPELINE_COMPLETE">>}

\* files the executed code may leave in the working directory
report_md ==
    [stem |-> "report", ext |-> ".md", kind |-> "file", where |-> "top"]
chart_png ==
    [stem |-> "chart", ext |-> ".png", kind |-> "file", where |-> "top"]
ExecWrites == {{}, {report_md}, {report_md, chart_png}}

\* a completion (LLM) reply, of any of the three roles
LLMReplies == {TEXT, CODE, APPROVE, FENCED_PC, LONG_PC}

\* the extension table of discover_artifacts
FileType(ext) ==
    CASE ext \in {".png", ".jpg", ".jpeg"} -> "image"
      [] ext = ".md"   -> "markdown"
      [] ext = ".json" -> "json"
      [] ext = ".py"   -> "code"
      [] ext = ".txt"  -> "text"
      [] ext = ".csv"  -> "data"
      [] ext = ".html" -> "html"
      [] OTHER         -> "file"

\* a path that names a directory with these entries
ExistingDir(entries) == [exists |-> TRUE, entries |-> entries]

\* glob.glob(os.path.join(work_dir, "*")): the names directly inside the
\* directory that do not begin with a dot; no match when the path names
\* nothing
Glob(d) == IF d.exists THEN {g \in d.entries : g.where = "top"} ELSE {}

\* str.lower() on the extensions met here
LowerExt_same(ext) == ext

LowerExt(ext) ==
    CASE ext = ".PNG" -> ".png"
      [] ext = ".MD"  -> ".md"
      [] OTHER        -> ext

\* discover_artifacts(work_dir): one entry per regular file of the directory
discover_artifacts(d) ==
    {[name |-> f, type |-> FileType(LowerExt(f.ext))] :
        f \in {g \in Glob(d) : g.kind = "file"}}

\* every Executor turn goes to the Reviewer
select_next_speaker_review(last_speaker, msgs) ==
    IF msgs = <<>> THEN Engineer
    ELSE IF last_speaker = Executor THEN Reviewer
    ELSE IF last_speaker = Engineer THEN Executor
    ELSE IF last_speaker = Reviewer THEN Engineer
    ELSE Engineer

\* a Reviewer turn goes to the Executor
select_next_speaker_rerun(last_speaker, msgs) ==
    IF msgs = <<>> THEN Engineer
    ELSE IF last_speaker = Executor
         THEN IF Len(msgs) <= 1 THEN Engineer ELSE Reviewer
    ELSE IF last_speaker = Engineer THEN Executor
    ELSE IF last_speaker = Reviewer THEN Executor
    ELSE Engineer

\* no final return statement
select_next_speaker_fall(last_speaker, msgs) ==
    IF msgs = <<>> THEN Engineer
    ELSE IF last_speaker = Executor
         THEN IF Len(msgs) <= 1 THEN Engineer ELSE Reviewer
    ELSE IF last_speaker = Engineer THEN Executor
    ELSE IF last_speaker = Reviewer THEN Engineer
    ELSE NoneVal

select_next_speaker_back(last_speaker, msgs) ==
    IF msgs = <<>> THEN Engineer
    ELSE IF last_speaker = Executor THEN Engineer
    ELSE IF last_speaker = Engineer THEN Executor
    ELSE IF last_speaker = Reviewer THEN Engineer
    ELSE Engineer

\* select_next_speaker(last_speaker, groupchat)
select_next_speaker(last_speaker, msgs) ==
    IF msgs = <<>> THEN Engineer
    ELSE IF last_speaker = Executor
         THEN IF Len(msgs) <= 1 THEN Engineer
              ELSE IF ContainsLower(msgs[Len(msgs)].content, "exitcode:")
                   THEN Reviewer
                   ELSE Reviewer
    ELSE IF last_speaker = Engineer THEN Executor
    ELSE IF last_speaker = Reviewer THEN Engineer
    ELSE Engineer

\* GroupChatManager.run_chat, `for i in range(max_round)`: after appending
\* the message of round i the loop breaks when the message is a termination
\* message or i is the last round
LastRound_late(i) == i = max_round

LastRound(i) == i = max_round - 1

ChatOver_capOnly(m, i) == LastRound(i)

ChatOver(m, i) == is_pipeline_complete(m) \/ LastRound(i)

\* characters of content the stream key keeps: content[:80]
KeyChars == 80

\* characters of a token
TokLen(t) ==
    CASE t = "PIPELINE_COMPLETE" -> 17
      [] t = "FENCE_PY" -> 10
      [] t = "NL_FENCE" -> 4
      [] t \in {"exitcode:", "Exitcode:"} -> 9
      [] t \in {"0", "1"} -> 2
      [] t = "long" -> KeyChars
      [] OTHER -> 3

\* content[:n] as the tokens it covers, each with the characters kept of it
RECURSIVE Prefix(_, _)
Prefix(content, n) ==
    IF content = <<>> \/ n = 0 THEN <<>>
    ELSE LET t == Head(content)
             k == IF TokLen(t) <= n THEN TokLen(t) ELSE n
         IN  <<<<t, k>>>> \o Prefix(Tail(content), n - k)

StreamKey(name, content) == <<name, Prefix(content, KeyChars)>>

\* run_workflow's final_messages
final_messages(msgs) ==
    [i \in 1..Len(msgs) |->
        _make_message_dict(msgs[i].name, "GroupChat", msgs[i].content)]

\* ------------------------------------------------------------- the service
RunIds == 1..MaxRuns

\* the caller of a direct run_workflow call, where a run of the service has
\* its run id
Lib == MaxRuns + 1

\* keyword arguments _run_sync passes, parameters run_workflow declares
ArgKeys == {"task_prompt", "work_dir", "on_message", "model", "temperature",
            "anomaly_count", "agent_mode", "template_id", "output_format"}

RunWorkflowParams_kwargs == ArgKeys

RunWorkflowParams == {"task_prompt", "work_dir", "on_message", "model",
                      "temperature", "agent_mode"}

\* keys of the dict run_workflow returns, keys _run_sync reads from it
ResultKeys == {"result", "work_dir", "artifacts", "messages"}

ReadKeys == {"work_dir", "artifact_report", "artifact_plot", "messages"}

\* names api/main.py can resolve when _run_sync runs
MainGlobals == {"run_workflow", "load_env", "save_run", "RUNS", "RUN_QUEUES"}

\* _run_sync from its first line to the call run_workflow(**args): the
\* exception raised on the way, NoneVal when the call is entered
CallOutcome(cfg) ==
    IF cfg.template_id /\ ~cfg.task_prompt
          /\ "get_template_prompt" \notin MainGlobals
    THEN "NameError"
    ELSE IF ~(ArgKeys \subseteq RunWorkflowParams) THEN "TypeError"
    ELSE NoneVal

FailedEntry_pending(err) == [status |-> "pending", error |-> err]

\* the entry _run_sync's except branch writes to RUNS
FailedEntry(err) == [status |-> "failed", error |-> err]

\* the entry _run_sync writes to RUNS after run_workflow has returned
CompletedEntry == [status |-> "completed", error |-> NoneVal]

AbsentEntry == [status |-> "absent", error |-> NoneVal]

RunningEntry == [status |-> "running", error |-> NoneVal]

\* db.save_run: insert, or on conflict set status and error of the row
save_run(db, id, status, err) ==
    [db EXCEPT ![id] = [status |-> status, error |-> err]]

\* ------------------------------------------------------------------- state
VARIABLES
    text,          \* the text handed to the classifier
    classified,    \* <<_make_message_dict's result>>, <<>> before the call
    entry,         \* what the clients do: "api": POST /run; "stream": one
                   \* POST /run and GET /runs/{run_id}/stream; "lib":
                   \* run_workflow called directly, once; "calls":
                   \* run_workflow called directly several times while the
                   \* completion provider is unreachable
    now,           \* datetime.utcnow(), in seconds
    rate_limit_store, \* api.main.rate_limit_store: client ip -> timestamps
    allowed,       \* per client ip, the timestamps of its requests that
                   \* check_rate_limit allowed, in order
    answer,        \* the client and the outcome of the last POST /run
    nreq,          \* POST /run requests made so far
    scan_dir,      \* the path given to a discover_artifacts call of its own
    scanned,       \* that call has returned
    artifacts,     \* what it returned
    frags,         \* inner texts of the fenced fragments joined into text
    prose,         \* the prose before, between and after them
    closed,        \* per fragment: does its closing fence follow it
    mtime,         \* per run: modification time of its working directory
    runs_table,    \* the rows of table runs of api.db, in rowid order
    saved,         \* the save_run calls made on it, in order
    answered,         \* what the last query on it returned
    environ,       \* os.environ after load_env(), where get_config is
                   \* looked at alone
    cfg_ret,       \* <<>>, or what that get_config call returned or raised
    router,        \* the arguments of a select_next_speaker call of its
                   \* own and, once made, what it returned
    hasKey,        \* GROQ_API_KEY or OPENAI_API_KEY is set
    dirs,          \* the directories that exist, by path
    rdir,          \* work_dir of each run of the service, <<>> before
    calls,         \* work_dir of each direct run_workflow call so far
    work_dir,      \* run_workflow's work_dir
    RUNS,          \* api.main.RUNS: run id -> entry
    RUN_QUEUES,    \* api.main.RUN_QUEUES: run id -> events put, in order
    store,         \* the runs table of api/db.py: run id -> row
    rcfg,          \* RunConfig of each run
    rpc,           \* where each run's background task stands
    rq,            \* _run_sync's local q is a queue (not None)
    rerr,          \* the exception _run_sync's except branch caught
    rbranch,       \* "completed": try block after the call; "failed": except
    run_semaphore, \* run_semaphore._value
    waiters,       \* run_semaphore._waiters: the futures of the runs that
                   \* wait, each with its run and whether it is done
    sem_loop,      \* the run whose event loop run_semaphore is bound to, 0
                   \* while it is bound to none
    qhead,         \* items q.get has taken from each run's queue: the queue
                   \* holds the events of RUN_QUEUES[r] after the first qhead[r]
    qdel,          \* the key of the run has been deleted from RUN_QUEUES
    streams,       \* the stream requests: where each stands, its run and
                   \* the events it has yielded to its client
    caller,        \* who called run_workflow last: Lib or a run id
    task,          \* task_prompt
    sinkKind,      \* on_message of a direct call: "none", "ok" or "raises"
    sink,          \* events on_message took without raising (direct call)
    wpc,           \* run_workflow: "idle", "initiate", "select", "over",
                   \* "raised", "returned"
    messages,      \* groupchat.messages: [name, content]
    speaker,       \* run_chat's speaker
    nSelect,       \* calls of select_next_speaker so far
    streamed_keys, \* run_workflow's streamed_keys
    workdir,       \* files in work_dir
    ret,           \* <<the dict run_workflow returned>>, <<>> before
    ref            \* the same call, fed the same replies, with a callback
                   \* that never raises: its wpc, messages, speaker and ret

tvars == <<text, classified>>
dvars == <<hasKey, dirs, rdir, calls, work_dir>>
lvars == <<now, rate_limit_store, allowed, answer, nreq>>
fvars == <<scan_dir, scanned, artifacts>>
uvars == <<frags, prose, closed, mtime, runs_table, saved, answered, environ, cfg_ret,
           router>>
svars == <<RUNS, RUN_QUEUES, store, rcfg, rpc, rq, rerr, rbranch>>
stvars == <<qhead, qdel, streams>>
mvars == <<run_semaphore, waiters, sem_loop>>
cvars == <<caller, task, sinkKind, sink, wpc, messages, speaker, nSelect,
           streamed_keys, workdir, ret, ref>>
vars == <<text, classified, entry, frags, prose, closed, mtime, runs_table, saved, answered,
          environ, cfg_ret, router,
          scan_dir, scanned, artifacts, now, rate_limit_store, allowed, answer,
          nreq, hasKey, dirs, rdir, calls, work_dir, RUNS, RUN_QUEUES, store, rcfg, rpc, rq,
          rerr, rbranch, run_semaphore, waiters, sem_loop, qhead, qdel, streams, caller, task, sinkKind, sink, wpc, messages, speaker,
          nSelect, streamed_keys, workdir, ret, ref>>

\* ------------------------------------------------------------------- init
TextIdle ==
    /\ text = <<>>
    /\ classified = <<>>

Configs == [task_prompt : BOOLEAN, template_id : BOOLEAN]

ServiceInit ==
    /\ RUNS = [r \in RunIds |-> AbsentEntry]
    /\ RUN_QUEUES = [r \in RunIds |-> <<>>]
    /\ store = [r \in RunIds |-> AbsentEntry]
    /\ rcfg = [r \in RunIds |-> [task_prompt |-> FALSE, template_id |-> FALSE]]
    /\ rpc = [r \in RunIds |-> "none"]
    /\ rq = [r \in RunIds |-> FALSE]
    /\ rerr = [r \in RunIds |-> NoneVal]
    /\ rbranch = [r \in RunIds |-> NoneVal]

\* get_workspace_dir() without COGNITIONFLOW_WORKSPACE, as a path
get_workspace_dir == <<"project_workspace">>

RunDir_base(r) == get_workspace_dir

\* run_analysis: os.path.join(base_dir, run_id)
RunDir(r) == get_workspace_dir \o <<r>>

\* no directory exists yet, no run and no call has one
DirInit ==
    /\ dirs = {}
    /\ mtime = [r \in RunIds |-> 0]
    /\ rdir = [r \in RunIds |-> <<>>]
    /\ calls = <<>>
    /\ work_dir = <<>>

\* client addresses
IPs == {"ip1", "ip2"}

RATE_LIMIT_WINDOW == 60

RATE_LIMIT_MAX == 10

\* select_next_speaker is not called apart from the conversations
RouterIdle ==
    router = [last_speaker |-> NoneVal, messages |-> <<>>, next |-> <<>>]

\* a variable that is not set in the environment
Unset == NoneVal

EnvNames == {"GROQ_API_KEY", "OPENAI_API_KEY", "GROQ_MODEL", "OPENAI_MODEL",
             "OPENAI_BASE_URL", "GROQ_TEMPERATURE"}

\* get_config is not looked at alone
ConfigIdle ==
    /\ environ = [n \in EnvNames |-> Unset]
    /\ cfg_ret = <<>>

\* init_db(): the table is there and empty; nothing was asked of it
NoReply == [op |-> NoneVal]

DbIdle ==
    /\ runs_table = <<>>
    /\ saved = <<>>
    /\ answered = NoReply

\* no text is put together from fragments
JoinIdle ==
    /\ frags = <<>>
    /\ prose = <<>>
    /\ closed = <<>>

\* no directory is scanned apart from the runs' own
ScanIdle ==
    /\ scan_dir = [exists |-> FALSE, entries |-> {}]
    /\ scanned = FALSE
    /\ artifacts = {}

RateInit ==
    /\ now = 0
    /\ rate_limit_store = [ip \in IPs |-> <<>>]
    /\ allowed = [ip \in IPs |-> <<>>]
    /\ answer = [ip |-> NoneVal, code |-> NoneVal]
    /\ nreq = 0

\* run_semaphore = asyncio.Semaphore(MAX_CONCURRENT_RUNS)
MAX_CONCURRENT_RUNS == 2

SemInit ==
    /\ run_semaphore = MAX_CONCURRENT_RUNS
    /\ waiters = <<>>
    /\ sem_loop = 0

StreamIds == 1..MaxStreams

StreamInit ==
    /\ qhead = [r \in RunIds |-> 0]
    /\ qdel = [r \in RunIds |-> FALSE]
    /\ streams = [c \in StreamIds |-> [pc |-> "idle", run |-> 0, got |-> <<>>]]

ChatIdle ==
    /\ caller = Lib
    /\ task = <<>>
    /\ sinkKind = "none"
    /\ sink = <<>>
    /\ wpc = "idle"
    /\ messages = <<>>
    /\ speaker = NoneVal
    /\ nSelect = 0
    /\ streamed_keys = {}
    /\ workdir = {}
    /\ ret = <<>>
    /\ ref = [wpc |-> "idle", messages |-> <<>>, speaker |-> NoneVal,
              ret |-> <<>>]

Init ==
    /\ TextIdle
    /\ entry \in {"api", "stream", "lib", "calls"}
    /\ hasKey \in BOOLEAN
    /\ DirInit
    /\ RateInit
    /\ DbIdle
    /\ JoinIdle
    /\ ScanIdle
    /\ ServiceInit
    /\ SemInit
    /\ StreamInit
    /\ ChatIdle
    /\ RouterIdle
    /\ ConfigIdle

\* ------------------------------------------------------------- event sink
\* on_message(ev) for each event of evs, in order.  A direct caller's
\* callback may raise, which run_workflow swallows; _run_sync's callback
\* puts the event on the run's queue when there is one.
SinkAfter_prepend(who, kind, evs) ==
    IF who = Lib /\ kind = "ok" THEN evs \o sink ELSE sink

SinkAfter(who, kind, evs) ==
    IF who = Lib /\ kind = "ok" THEN sink \o evs ELSE sink

QueuesAfter(who, evs) ==
    IF who \in RunIds /\ rq[who]
    THEN [RUN_QUEUES EXCEPT ![who] = @ \o evs]
    ELSE RUN_QUEUES

HasCallback(who, kind) == who \in RunIds \/ kind # "none"

PhaseEvent(phase) == [type |-> "phase_change", phase |-> phase]

DoneEvent(status, err) == [type |-> "done", status |-> status, error |-> err]

\* _streaming_process(message, sender, silent): the events it hands to
\* on_message (none when the key was streamed before) and the keys after it
StreamEvents(who, kind, keys, name, content) ==
    IF HasCallback(who, kind) /\ content # <<>>
          /\ StreamKey(name, content) \notin keys
    THEN <<_make_message_dict(name, "GroupChat", content)>>
    ELSE <<>>

StreamKeysAfter_forget(who, kind, keys, name, content) == keys

StreamKeysAfter(who, kind, keys, name, content) ==
    IF HasCallback(who, kind) /\ content # <<>>
    THEN keys \cup {StreamKey(name, content)}
    ELSE keys

OnSinkError_propagate == "raise"

\* what run_workflow does with an exception of on_message: each of its
\* three calls sits in a try/except that logs the exception
OnSinkError == "swallow"

\* on_message raises on an event of evs and run_workflow lets it through;
\* _run_sync's callback swallows the exceptions of q.put itself
SinkAborts(who, kind, evs) ==
    who = Lib /\ kind = "raises" /\ evs # <<>> /\ OnSinkError # "swallow"

\* ------------------------------------------------------------ run_workflow
\* the reference call: the steps of run_workflow with a working callback
RefBegin ==
    [wpc |-> "initiate", messages |-> <<>>, speaker |-> NoneVal, ret |-> <<>>]

RefReceive(st, name, content) ==
    LET m == [name |-> name, content |-> content]
    IN  [wpc |-> IF ChatOver(m, Len(st.messages)) THEN "over" ELSE "select",
         messages |-> Append(st.messages, m),
         speaker |-> name,
         ret |-> st.ret]

RefNext(st) == select_next_speaker(st.speaker, st.messages)

\* run_workflow up to initiate_chat: the working directory is made, then
\* get_config_with_overrides raises ValueError when no key is set, else
\* fresh agents and the initializing event.  Each call has its own callback.
Begin(who, prompt, kind, wd) ==
    /\ caller' = who
    /\ task' = prompt
    /\ sinkKind' = kind
    /\ work_dir' = wd
    /\ dirs' = dirs \cup {wd}
    /\ wpc' = IF ~hasKey THEN "propagated"
              ELSE IF HasCallback(who, kind)
                      /\ SinkAborts(who, kind, <<PhaseEvent("initializing")>>)
              THEN "propagated" ELSE "initiate"
    /\ ref' = IF hasKey THEN RefBegin
              ELSE [RefBegin EXCEPT !.wpc = "propagated"]
    /\ messages' = <<>>
    /\ speaker' = NoneVal
    /\ nSelect' = 0
    /\ streamed_keys' = {}
    /\ workdir' = IF wd = work_dir THEN workdir ELSE {}
    /\ ret' = <<>>
    /\ sink' = IF hasKey /\ who = Lib /\ kind = "ok"
                  THEN <<PhaseEvent("initializing")>>
                  ELSE <<>>
    /\ RUN_QUEUES' = IF hasKey
                        THEN QueuesAfter(who, <<PhaseEvent("initializing")>>)
                        ELSE RUN_QUEUES

\* the work_dir arguments of the direct calls, <<>> for None
WorkDirArgs(e) == IF e = "calls" THEN {<<>>, <<"out">>} ELSE {<<>>}

\* the completion provider answers
ProviderUp(e) == e # "calls"

\* a script or test calls run_workflow(task_prompt, work_dir, on_message)
LibCall ==
    /\ \/ entry = "lib" /\ wpc = "idle"
       \/ /\ entry = "calls"
          /\ wpc \in {"idle", "returned", "propagated"}
          /\ Len(calls) < MaxCalls
    /\ \E prompt \in TaskPrompts, kind \in {"none", "ok", "raises"},
          arg \in WorkDirArgs(entry) :
          LET wd == IF arg = <<>> THEN get_workspace_dir ELSE arg
          IN  /\ Begin(Lib, prompt, kind, wd)
              /\ calls' = Append(calls, wd)
    /\ UNCHANGED <<tvars, uvars, fvars, lvars, mvars, stvars, entry, hasKey, rdir, RUNS, store, rcfg, rpc,
                   rq, rerr, rbranch>>

\* one message reaches the manager and run_chat appends it: the streaming
\* hook, groupchat.append, and the test that ends the loop
Receive(name, content) ==
    LET m == [name |-> name, content |-> content]
        evs == StreamEvents(caller, sinkKind, streamed_keys, name, content)
    IN  /\ streamed_keys' =
              StreamKeysAfter(caller, sinkKind, streamed_keys, name, content)
        /\ sink' = SinkAfter(caller, sinkKind, evs)
        /\ RUN_QUEUES' = QueuesAfter(caller, evs)
        /\ IF SinkAborts(caller, sinkKind, evs)
           THEN /\ messages' = messages
                /\ wpc' = "raised"
           ELSE /\ messages' = Append(messages, m)
                /\ wpc' = IF ChatOver(m, Len(messages))
                              THEN "over" ELSE "select"

\* executor.initiate_chat(manager, message=task_prompt)
InitiateChat ==
    /\ wpc = "initiate"
    /\ Receive(Executor, task)
    /\ speaker' = Executor
    /\ ref' = RefReceive(ref, Executor, task)
    /\ UNCHANGED <<tvars, uvars, fvars, lvars, mvars, dvars, stvars, entry, RUNS, store, rcfg, rpc, rq, rerr, rbranch,
                   caller, task, sinkKind, nSelect, workdir, ret>>

\* initiate_chat raises before the manager has the task
InitiateChatRaises ==
    /\ wpc = "initiate"
    /\ wpc' = "raised"
    /\ ref' = [ref EXCEPT !.wpc = "raised"]
    /\ UNCHANGED <<tvars, uvars, fvars, lvars, mvars, dvars, stvars, entry, svars, caller, task, sinkKind, sink, messages,
                   speaker, nSelect, streamed_keys, workdir, ret>>

\* the next speaker found by select_next_speaker replies: the Executor runs
\* the code of the last message when there is some (its code may write
\* files) and otherwise, like the other two, answers by a completion
Turn ==
    /\ wpc = "select"
    /\ ProviderUp(entry)
    /\ LET next == select_next_speaker(speaker, messages)
           last == messages[Len(messages)].content
           runs == next = Executor /\ Len(_extract_code_blocks(last)) > 0
       IN  /\ speaker' = next
           /\ nSelect' = nSelect + 1
           /\ \/ /\ runs
                 /\ \E out \in {EXIT0, EXIT1}, w \in ExecWrites :
                       /\ workdir' = workdir \cup w
                       /\ Receive(next, out)
                       /\ ref' = RefReceive(ref, RefNext(ref), out)
              \/ /\ ~runs
                 /\ \E reply \in LLMReplies :
                       /\ Receive(next, reply)
                       /\ ref' = RefReceive(ref, RefNext(ref), reply)
                 /\ UNCHANGED workdir
    /\ UNCHANGED <<tvars, uvars, fvars, lvars, mvars, dvars, stvars, entry, RUNS, store, rcfg, rpc, rq, rerr, rbranch,
                   caller, task, sinkKind, ret>>

\* the completion or the execution asked of the next speaker raises; code
\* that was running may have written files before
TurnRaises ==
    /\ wpc = "select"
    /\ LET next == select_next_speaker(speaker, messages)
           last == messages[Len(messages)].content
           runs == next = Executor /\ Len(_extract_code_blocks(last)) > 0
       IN  /\ speaker' = next
           /\ nSelect' = nSelect + 1
           /\ \E w \in ExecWrites :
                 /\ (~runs => w = {})
                 /\ workdir' = workdir \cup w
    /\ wpc' = "raised"
    /\ ref' = [ref EXCEPT !.wpc = "raised", !.speaker = RefNext(ref)]
    /\ UNCHANGED <<tvars, uvars, fvars, lvars, mvars, dvars, stvars, entry, svars, caller, task, sinkKind, sink, messages,
                   streamed_keys, ret>>

ChatErrorExit_reraise == "propagated"

\* run_workflow's  except Exception as chat_err:  the exception is logged
\* and run_workflow goes on to its return
ChatErrorExit == "returned"

\* the dict run_workflow returns
Result(raised, msgs, dir) ==
    [result   |-> IF raised THEN NoneVal ELSE "ChatResult",
     work_dir |-> "work_dir",
     artifacts |-> discover_artifacts(ExistingDir(dir)),
     messages |-> final_messages(msgs)]

\* run_workflow from the end of initiate_chat to its return; for a run of
\* the service, _run_sync goes on with the returned dict
WorkflowEnd ==
    /\ wpc \in {"over", "raised"}
    /\ LET evs == IF wpc = "raised" /\ HasCallback(caller, sinkKind)
                     THEN <<PhaseEvent("warning")>> ELSE <<>>
       IN  /\ sink' = SinkAfter(caller, sinkKind, evs)
           /\ RUN_QUEUES' = QueuesAfter(caller, evs)
           /\ wpc' = IF SinkAborts(caller, sinkKind, evs) THEN "propagated"
                      ELSE IF wpc = "raised" THEN ChatErrorExit
                      ELSE "returned"
           /\ ret' = IF SinkAborts(caller, sinkKind, evs)
                         \/ (wpc = "raised" /\ ChatErrorExit # "returned")
                      THEN <<>>
                      ELSE <<Result(wpc = "raised", messages, workdir)>>
    /\ ref' = [ref EXCEPT
                 !.wpc = IF ref.wpc = "raised" THEN ChatErrorExit
                         ELSE "returned",
                 !.ret = IF ref.wpc = "raised" /\ ChatErrorExit # "returned"
                         THEN <<>>
                         ELSE <<Result(ref.wpc = "raised", ref.messages,
                                       workdir)>>]
    /\ IF caller \in RunIds
       THEN /\ rpc' = [rpc EXCEPT ![caller] = "put"]
            /\ rbranch' = [rbranch EXCEPT ![caller] = "completed"]
       ELSE UNCHANGED <<rpc, rbranch>>
    /\ UNCHANGED <<tvars, uvars, fvars, lvars, mvars, dvars, stvars, entry, RUNS, store, rcfg, rq, rerr, caller, task,
                   sinkKind, messages, speaker, nSelect, streamed_keys,
                   workdir>>

\* ------------------------------------------------------------- the service
\* POST /run requests the clients make
Posts(e) == IF e = "api" THEN MaxRuns ELSE IF e = "stream" THEN 1 ELSE 0

\* check_rate_limit(client_ip): the timestamps newer than the window that
\* stay in the store, whether the request is refused, and the store after
\* the call
Recent(ip) ==
    SelectSeq(rate_limit_store[ip],
              LAMBDA ts : ts > now - RATE_LIMIT_WINDOW)

Limited_late(ip) == Len(Recent(ip)) > RATE_LIMIT_MAX

Limited(ip) == Len(Recent(ip)) >= RATE_LIMIT_MAX

StoreAfter(ip) ==
    [rate_limit_store EXCEPT
        ![ip] = IF Limited(ip) THEN Recent(ip) ELSE Append(Recent(ip), now)]

\* the client of the runs of Spec
Client == "ip1"

\* Semaphore.locked() (Python 3.11 and later): no slot is left, or a future
\* that was not cancelled is among the waiters
Locked == run_semaphore = 0 \/ waiters # <<>>

\* run_analysis answers 503: the semaphore is locked and
\* MAX_CONCURRENT_RUNS - _value is at least MAX_CONCURRENT_RUNS
Busy == Locked /\ MAX_CONCURRENT_RUNS - run_semaphore >= MAX_CONCURRENT_RUNS

CLEANUP_AGE_HOURS == 1

\* cleanup_old_workspaces(): of the folders of the workspace directory,
\* those whose modification time is before the cutoff are removed
Cutoff == now - CLEANUP_AGE_HOURS * 3600

IsRunFolder(d) == Len(d) = 2 /\ <<d[1]>> = get_workspace_dir /\ d[2] \in RunIds

cleanup_old_workspaces(ds) ==
    {d \in ds : ~(IsRunFolder(d) /\ mtime[d[2]] < Cutoff)}

\* POST /run: a fresh run id, its queue, its RUNS entry and its row; the
\* background task is added only when save_run did not raise
run_analysis(r) ==
    /\ r <= Posts(entry)
    /\ ~Limited(Client)
    /\ rate_limit_store' = StoreAfter(Client)
    /\ allowed' = [allowed EXCEPT ![Client] = Append(@, now)]
    /\ answer' = [ip |-> Client, code |-> "passed"]
    /\ nreq' = nreq + 1
    /\ ~Busy
    /\ RUNS[r].status = "absent"
    /\ \A o \in RunIds : o < r => RUNS[o].status # "absent"
    /\ \E cfg \in Configs : rcfg' = [rcfg EXCEPT ![r] = cfg]
    /\ rdir' = [rdir EXCEPT ![r] = RunDir(r)]
    /\ dirs' = cleanup_old_workspaces(dirs) \cup {RunDir(r)}
    /\ RUN_QUEUES' = [RUN_QUEUES EXCEPT ![r] = <<>>]
    /\ RUNS' = [RUNS EXCEPT ![r] = RunningEntry]
    /\ \E ok \in BOOLEAN :
          IF ok
          THEN /\ store' = save_run(store, r, "running", NoneVal)
               /\ rpc' = [rpc EXCEPT ![r] = "scheduled"]
          ELSE /\ rpc' = [rpc EXCEPT ![r] = "refused"]
               /\ UNCHANGED store
    /\ UNCHANGED <<tvars, uvars, fvars, now, mvars, stvars, entry, hasKey, calls, work_dir,
                   rq, rerr, rbranch, cvars>>

\* the background task, a thread of the pool with an event loop of its own
\* (asyncio.run), enters  async with run_semaphore:  Semaphore.acquire looks
\* at locked() and, when the semaphore is not locked, goes on to take a
\* slot; when it is locked it makes a future of its own loop and waits on
\* it, which binds the semaphore to that loop and raises RuntimeError in a
\* task of any other loop.  Nothing keeps another thread from running
\* between the look and the take.
SemCheck(r) ==
    /\ rpc[r] = "scheduled"
    /\ IF ~Locked
       THEN /\ rpc' = [rpc EXCEPT ![r] = "acquire"]
            /\ UNCHANGED <<waiters, sem_loop>>
       ELSE IF sem_loop \notin {0, r}
       THEN /\ rpc' = [rpc EXCEPT ![r] = "loop_error"]
            /\ UNCHANGED <<waiters, sem_loop>>
       ELSE /\ rpc' = [rpc EXCEPT ![r] = "waiting"]
            /\ waiters' = Append(waiters, [run |-> r, done |-> FALSE])
            /\ sem_loop' = r
    /\ UNCHANGED <<tvars, uvars, fvars, lvars, dvars, stvars, entry, run_semaphore, RUNS,
                   RUN_QUEUES, store, rcfg, rq, rerr, rbranch, cvars>>

\* Semaphore.release at the end of  async with run_semaphore:  the slot goes
\* back, or to the first waiter whose future is not done.  set_result is
\* called in the releasing thread, not in the thread of the waiter's loop,
\* which sleeps in its selector: the waiter may see it or never wake.
Release(r, final) ==
    LET pending == {i \in 1..Len(waiters) : ~waiters[i].done}
    IN  IF pending = {}
        THEN /\ run_semaphore' = run_semaphore + 1
             /\ rpc' = [rpc EXCEPT ![r] = final]
             /\ UNCHANGED waiters
        ELSE LET i == CHOOSE k \in pending : \A l \in pending : k <= l
             IN  /\ run_semaphore' = run_semaphore
                 /\ waiters' = [waiters EXCEPT ![i].done = TRUE]
                 /\ \E seen \in BOOLEAN :
                       rpc' = [rpc EXCEPT
                                 ![r] = final,
                                 ![waiters[i].run] =
                                     IF seen THEN "woken" ELSE "stuck"]

\* the slot is taken (a woken waiter has it already and removes its
\* future), then _run_sync: q = RUN_QUEUES.get(run_id), load_env() and the
\* initializing event
RunSyncStart(r) ==
    /\ rpc[r] \in {"acquire", "woken"}
    /\ run_semaphore' = IF rpc[r] = "acquire" THEN run_semaphore - 1
                         ELSE run_semaphore
    /\ waiters' = SelectSeq(waiters, LAMBDA w : w.run # r)
    /\ UNCHANGED sem_loop
    /\ rq' = [rq EXCEPT ![r] = ~qdel[r]]
    /\ RUN_QUEUES' = IF qdel[r] THEN RUN_QUEUES
                     ELSE [RUN_QUEUES EXCEPT
                              ![r] = Append(@, PhaseEvent("initializing"))]
    /\ rpc' = [rpc EXCEPT ![r] = "call"]
    /\ UNCHANGED <<tvars, uvars, fvars, lvars, dvars, stvars, entry, RUNS, store, rcfg, rerr,
                   rbranch, cvars>>

\* _run_sync: the arguments and the call run_workflow(**args)
RunSyncCall(r) ==
    /\ rpc[r] = "call"
    /\ LET exc == IF CallOutcome(rcfg[r]) # NoneVal THEN CallOutcome(rcfg[r])
                  ELSE IF ~hasKey THEN "ValueError"
                  ELSE NoneVal
       IN  IF exc # NoneVal
           THEN /\ rerr' = [rerr EXCEPT ![r] = exc]
                /\ rbranch' = [rbranch EXCEPT ![r] = "failed"]
                /\ rpc' = [rpc EXCEPT ![r] = "put"]
                /\ UNCHANGED <<RUN_QUEUES, dirs, work_dir, cvars>>
           ELSE /\ wpc \in {"idle", "returned"}
                /\ Begin(r, TEXT, "ok", rdir[r])
                /\ rpc' = [rpc EXCEPT ![r] = "workflow"]
                /\ UNCHANGED <<rerr, rbranch>>
    /\ UNCHANGED <<tvars, uvars, fvars, lvars, mvars, stvars, entry, hasKey, rdir, calls, RUNS, store,
                   rcfg, rq>>

\* _run_sync: q.put of the done event, in the try block after run_workflow
\* returned (building the RUNS entry then reads the returned dict) or in
\* the except branch
RunSyncPutDone(r) ==
    /\ rpc[r] = "put"
    /\ LET err == IF rbranch[r] = "failed" THEN rerr[r] ELSE NoneVal
       IN  RUN_QUEUES' = IF rq[r]
                            THEN [RUN_QUEUES EXCEPT ![r] =
                                     Append(@, DoneEvent(rbranch[r], err))]
                            ELSE RUN_QUEUES
    /\ IF rbranch[r] = "completed" /\ ~(ReadKeys \subseteq ResultKeys)
       THEN /\ rerr' = [rerr EXCEPT ![r] = "KeyError"]
            /\ rbranch' = [rbranch EXCEPT ![r] = "failed"]
            /\ UNCHANGED rpc
       ELSE /\ rpc' = [rpc EXCEPT ![r] = "runs"]
            /\ UNCHANGED <<rerr, rbranch>>
    /\ UNCHANGED <<tvars, uvars, fvars, lvars, mvars, dvars, stvars, entry, RUNS, store, rcfg, rq, cvars>>

\* _run_sync: RUNS[run_id] = {...}
RunSyncSetRuns(r) ==
    /\ rpc[r] = "runs"
    /\ RUNS' = [RUNS EXCEPT ![r] = IF rbranch[r] = "completed"
                                      THEN CompletedEntry
                                      ELSE FailedEntry(rerr[r])]
    /\ rpc' = [rpc EXCEPT ![r] = "save"]
    /\ UNCHANGED <<tvars, uvars, fvars, lvars, mvars, dvars, stvars, entry, RUN_QUEUES, store, rcfg, rq, rerr, rbranch,
                   cvars>>

\* _run_sync: save_run(...); when it raises in the try block the except
\* branch runs, when it raises in the except branch _run_sync ends with it.
\* When _run_sync ends, run_with_semaphore leaves  async with  and the slot
\* is released.
RunSyncSaveRun(r) ==
    /\ rpc[r] = "save"
    /\ \E ok \in BOOLEAN :
          IF ok
          THEN /\ store' = save_run(store, r, RUNS[r].status, RUNS[r].error)
               /\ Release(r, "done")
               /\ UNCHANGED <<rerr, rbranch>>
          ELSE IF rbranch[r] = "completed"
          THEN /\ rerr' = [rerr EXCEPT ![r] = "DbError"]
               /\ rbranch' = [rbranch EXCEPT ![r] = "failed"]
               /\ rpc' = [rpc EXCEPT ![r] = "put"]
               /\ UNCHANGED <<store, run_semaphore, waiters>>
          ELSE /\ Release(r, "raised")
               /\ UNCHANGED <<store, rerr, rbranch>>
    /\ UNCHANGED <<tvars, uvars, fvars, lvars, dvars, stvars, entry, sem_loop, RUNS, RUN_QUEUES,
                   rcfg, rq, cvars>>

\* ----------------------------------------------- GET /runs/{run_id}/stream
\* the done event stream_run makes up from RUNS
StatusDone(status) == [type |-> "done", status |-> status]

\* only a completed run counts as over
Terminal_completedOnly(r) == RUNS[r].status = "completed"

Terminal(r) == RUNS[r].status \in {"completed", "failed"}

\* the finally of event_generator
QueueDeleted(r) == [qdel EXCEPT ![r] = TRUE]

\* stream_run(run_id): 404 for an unknown run and for a run that is not
\* over and has no queue; one made-up done event for a run that is over and
\* has no queue; otherwise event_generator starts on the run's queue
stream_run(c, r) ==
    /\ entry = "stream"
    /\ streams[c].pc = "idle"
    /\ streams' = [streams EXCEPT ![c] =
          IF RUNS[r].status = "absent"
          THEN [pc |-> "404", run |-> r, got |-> <<>>]
          ELSE IF qdel[r]
          THEN IF Terminal(r)
               THEN [pc |-> "closed", run |-> r,
                     got |-> <<StatusDone(RUNS[r].status)>>]
               ELSE [pc |-> "404", run |-> r, got |-> <<>>]
          ELSE [pc |-> "open", run |-> r, got |-> <<>>]]
    /\ UNCHANGED <<tvars, uvars, fvars, lvars, mvars, dvars, entry, svars, qhead, qdel, cvars>>

\* event_generator: q.get returns the oldest event of the queue, which is
\* yielded; a done event ends the generator and its finally deletes the key
StreamGet(c) ==
    LET r == streams[c].run
    IN  /\ streams[c].pc = "open"
        /\ qhead[r] < Len(RUN_QUEUES[r])
        /\ LET msg == RUN_QUEUES[r][qhead[r] + 1]
           IN  /\ qhead' = [qhead EXCEPT ![r] = @ + 1]
               /\ streams' = [streams EXCEPT
                     ![c].got = Append(@, msg),
                     ![c].pc = IF msg.type = "done" THEN "closed" ELSE "open"]
               /\ qdel' = IF msg.type = "done" THEN QueueDeleted(r) ELSE qdel
        /\ UNCHANGED <<tvars, uvars, fvars, lvars, mvars, dvars, entry, svars, cvars>>

\* event_generator: q.get(timeout=1.0) raises queue.Empty
StreamEmpty(c) ==
    /\ streams[c].pc = "open"
    /\ qhead[streams[c].run] = Len(RUN_QUEUES[streams[c].run])
    /\ streams' = [streams EXCEPT ![c].pc = "empty"]
    /\ UNCHANGED <<tvars, uvars, fvars, lvars, mvars, dvars, entry, svars, qhead, qdel, cvars>>

\* event_generator after queue.Empty: a done event made up from RUNS when
\* the run is over, another q.get when it is not
StreamCheck(c) ==
    LET r == streams[c].run
    IN  /\ streams[c].pc = "empty"
        /\ IF Terminal(r)
           THEN /\ streams' = [streams EXCEPT
                      ![c].got = Append(@, StatusDone(RUNS[r].status)),
                      ![c].pc = "closed"]
                /\ qdel' = QueueDeleted(r)
           ELSE /\ streams' = [streams EXCEPT ![c].pc = "open"]
                /\ UNCHANGED qdel
        /\ UNCHANGED <<tvars, uvars, fvars, lvars, mvars, dvars, entry, svars, qhead, cvars>>

\* the client goes away: the generator is closed and its finally runs
StreamDisconnect(c) ==
    /\ streams[c].pc = "open"
    /\ streams' = [streams EXCEPT ![c].pc = "gone"]
    /\ qdel' = QueueDeleted(streams[c].run)
    /\ UNCHANGED <<tvars, uvars, fvars, lvars, mvars, dvars, entry, svars, qhead, cvars>>

Next ==
    \/ LibCall
    \/ InitiateChat
    \/ InitiateChatRaises
    \/ Turn
    \/ TurnRaises
    \/ WorkflowEnd
    \/ \E r \in RunIds :
          \/ run_analysis(r)
          \/ SemCheck(r)
          \/ RunSyncStart(r)
          \/ RunSyncCall(r)
          \/ RunSyncPutDone(r)
          \/ RunSyncSetRuns(r)
          \/ RunSyncSaveRun(r)
    \/ \E c \in StreamIds :
          \/ \E r \in RunIds : stream_run(c, r)
          \/ StreamGet(c)
          \/ StreamEmpty(c)
          \/ StreamCheck(c)
          \/ StreamDisconnect(c)

Spec == Init /\ [][Next]_vars

\* a step of event_generator of consumer c: the event loop of the server
\* runs the generator, and q.get(timeout=1.0) returns or raises within a
\* second
StreamStep(c) == StreamGet(c) \/ StreamEmpty(c) \/ StreamCheck(c)

SpecLive == Spec /\ \A c \in StreamIds : WF_vars(StreamStep(c))

\* ------------------------------------------------ the rate limit of POST /run
\* run_analysis as far as the rate limit: a refused request is answered 429
\* and nothing else of the handler runs; an allowed one goes on to the rest
\* of run_analysis, of which only nreq and answer keep a trace here
PostRun(ip) ==
    /\ nreq < MaxRequests
    /\ nreq' = nreq + 1
    /\ rate_limit_store' = StoreAfter(ip)
    /\ IF Limited(ip)
       THEN /\ answer' = [ip |-> ip, code |-> "429"]
            /\ UNCHANGED allowed
       ELSE /\ answer' = [ip |-> ip, code |-> "passed"]
            /\ allowed' = [allowed EXCEPT ![ip] = Append(@, now)]
    /\ UNCHANGED <<tvars, uvars, fvars, entry, now, dvars, mvars, svars, stvars, cvars>>

\* time passes
Tick ==
    /\ now < MaxTicks * TickSeconds
    /\ now' = now + TickSeconds
    /\ UNCHANGED <<tvars, uvars, fvars, entry, rate_limit_store, allowed, answer, nreq,
                   dvars, mvars, svars, stvars, cvars>>

RateSpecInit ==
    /\ TextIdle
    /\ entry = "api"
    /\ hasKey = TRUE
    /\ DirInit
    /\ RateInit
    /\ DbIdle
    /\ JoinIdle
    /\ ScanIdle
    /\ ServiceInit
    /\ SemInit
    /\ StreamInit
    /\ ChatIdle
    /\ RouterIdle
    /\ ConfigIdle

RateNext ==
    \/ \E ip \in IPs : PostRun(ip)
    \/ Tick

SpecRate == RateSpecInit /\ [][RateNext]_vars

\* ------------------------------------------------- discover_artifacts alone
\* extensions as os.path.splitext gives them; "" is a name without one
Exts == {".png", ".PNG", ".jpg", ".jpeg", ".md", ".MD", ".json", ".py",
         ".txt", ".csv", ".html", ".log", ""}

\* regular files and subdirectories: directly inside the directory under a
\* name that does not begin with a dot ("top") or that does ("hidden"), or
\* inside a subdirectory of it ("sub")
Entries ==
    [stem : {"a"}, ext : Exts, kind : {"file", "dir"}, where : {"top"}]
    \cup [stem : {"a"}, ext : {".md", ""}, kind : {"file", "dir"},
          where : {"hidden", "sub"}]

RECURSIVE SetsUpTo(_)
SetsUpTo(k) ==
    IF k = 0 THEN {{}}
    ELSE LET P == SetsUpTo(k - 1)
         IN  P \cup {p \cup {e} : p \in P, e \in Entries}

ScanInit ==
    /\ TextIdle
    /\ entry = "lib"
    /\ hasKey = TRUE
    /\ DirInit
    /\ RateInit
    /\ DbIdle
    /\ JoinIdle
    /\ ServiceInit
    /\ SemInit
    /\ StreamInit
    /\ ChatIdle
    /\ RouterIdle
    /\ ConfigIdle
    /\ scan_dir \in {[exists |-> FALSE, entries |-> {}]}
                     \cup {ExistingDir(p) : p \in SetsUpTo(MaxFiles)}
    /\ scanned = FALSE
    /\ artifacts = {}

Scan ==
    /\ ~scanned
    /\ scanned' = TRUE
    /\ artifacts' = discover_artifacts(scan_dir)
    /\ UNCHANGED <<text, classified, entry, uvars, scan_dir, lvars, dvars,
                   mvars, svars, stvars, cvars>>

ScanNext == Scan

SpecScan == ScanInit /\ [][ScanNext]_vars

\* ------------------------------------------------- the classifier on texts
TextInit ==
    /\ text \in Texts
    /\ classified = <<>>
    /\ entry = "lib"
    /\ hasKey = TRUE
    /\ DirInit
    /\ RateInit
    /\ DbIdle
    /\ JoinIdle
    /\ ScanIdle
    /\ ServiceInit
    /\ SemInit
    /\ StreamInit
    /\ ChatIdle
    /\ RouterIdle
    /\ ConfigIdle

Classify ==
    /\ classified = <<>>
    /\ classified' = <<_make_message_dict(Reviewer, "GroupChat", text)>>
    /\ UNCHANGED <<text, entry, uvars, fvars, lvars, dvars, mvars, svars, stvars, cvars>>

TextNext == Classify

SpecText == TextInit /\ [][TextNext]_vars

\* ---------------------------------------------- select_next_speaker alone
\* last speakers: the three agents, another agent and None
LastSpeakers == {Executor, Engineer, Reviewer, "Manager", NoneVal}

\* contents of a message: texts, and <<>> for a content of None or ""
RouterContents == {<<>>, TEXT, APPROVE, EXIT1}

RouterMessages == [name : {Executor, Engineer, Reviewer},
                   content : RouterContents]

RouterInit ==
    /\ TextIdle
    /\ entry = "lib"
    /\ hasKey = TRUE
    /\ DirInit
    /\ RateInit
    /\ DbIdle
    /\ JoinIdle
    /\ ScanIdle
    /\ ServiceInit
    /\ SemInit
    /\ StreamInit
    /\ ChatIdle
    /\ ConfigIdle
    /\ \E last \in LastSpeakers, n \in 0..MaxMsgs :
          \E msgs \in [1..n -> RouterMessages] :
              router = [last_speaker |-> last, messages |-> msgs,
                        next |-> <<>>]

Select ==
    /\ router.next = <<>>
    /\ router' = [router EXCEPT
                     !.next = <<select_next_speaker(router.last_speaker,
                                                    router.messages)>>]
    /\ UNCHANGED <<tvars, frags, prose, closed, mtime, runs_table, saved, answered, environ,
                   cfg_ret, fvars, lvars, dvars, mvars, svars, stvars, entry,
                   cvars>>

RouterNext == Select

SpecRouter == RouterInit /\ [][RouterNext]_vars

\* ------------------------------------------------------------ get_config
\* bool(v) of what os.environ.get gives: None and "" are false
Truthy(v) == v # Unset /\ v # ""

\* a or b
OrElse(a, b) == IF Truthy(a) THEN a ELSE b

\* os.environ.get(name, default)
EnvGet(env, name, default) ==
    IF env[name] = Unset THEN default ELSE env[name]

GROQ_DEFAULT_MODEL == "llama-3.1-8b-instant"

GROQ_BASE_URL == "https://api.groq.com/openai/v1"

\* get_config(): the dict it returns, or the exception it raises; a
\* base_url of Unset is an entry without that key; the temperature is kept
\* as the text float() is given
get_config(env) ==
    LET api_key == OrElse(env["GROQ_API_KEY"], env["OPENAI_API_KEY"])
    IN  IF ~Truthy(api_key)
        THEN [exc |-> "ValueError", config_list |-> <<>>,
              temperature |-> NoneVal]
        ELSE IF Truthy(env["GROQ_API_KEY"])
        THEN [exc |-> NoneVal,
              config_list |->
                  <<[model    |-> EnvGet(env, "GROQ_MODEL",
                                         GROQ_DEFAULT_MODEL),
                     api_key  |-> api_key,
                     base_url |-> GROQ_BASE_URL]>>,
              temperature |-> EnvGet(env, "GROQ_TEMPERATURE", "0.1")]
        ELSE [exc |-> NoneVal,
              config_list |->
                  <<[model    |-> EnvGet(env, "OPENAI_MODEL", "gpt-4o"),
                     api_key  |-> api_key,
                     base_url |-> IF Truthy(env["OPENAI_BASE_URL"])
                                  THEN env["OPENAI_BASE_URL"] ELSE Unset]>>,
              temperature |-> "0.1"]

\* environments: each variable unset or set, the keys and the Groq model
\* also set to the empty text; the temperature, where set, is a text
\* float() reads
Environments ==
    {env \in [EnvNames -> {Unset, "", "test_groq_key", "test_openai_key",
                           "llama-3.3-70b-versatile", "gpt-4o-mini",
                           "http://localhost:8080/v1", "0.7"}] :
        /\ env["GROQ_API_KEY"] \in {Unset, "", "test_groq_key"}
        /\ env["OPENAI_API_KEY"] \in {Unset, "", "test_openai_key"}
        /\ env["GROQ_MODEL"] \in {Unset, "", "llama-3.3-70b-versatile"}
        /\ env["OPENAI_MODEL"] \in {Unset, "gpt-4o-mini"}
        /\ env["OPENAI_BASE_URL"] \in {Unset, "http://localhost:8080/v1"}
        /\ env["GROQ_TEMPERATURE"] \in {Unset, "0.7"}}

ConfigInit ==
    /\ TextIdle
    /\ entry = "lib"
    /\ hasKey = TRUE
    /\ DirInit
    /\ RateInit
    /\ DbIdle
    /\ JoinIdle
    /\ ScanIdle
    /\ ServiceInit
    /\ SemInit
    /\ StreamInit
    /\ ChatIdle
    /\ RouterIdle
    /\ environ \in Environments
    /\ cfg_ret = <<>>

GetConfig ==
    /\ cfg_ret = <<>>
    /\ cfg_ret' = <<get_config(environ)>>
    /\ UNCHANGED <<tvars, frags, prose, closed, mtime, runs_table, saved, answered, environ,
                   router, fvars, lvars, dvars, mvars, svars, stvars, entry, cvars>>

ConfigNext == GetConfig

SpecConfig == ConfigInit /\ [][ConfigNext]_vars

\* ------------------------------------------------------ the runs table alone
DbIds == {"a", "b", "c"}

DbStatuses == {"running", "completed", "failed"}

\* the rows with this id
RowsOf(table, id) == {i \in 1..Len(table) : table[i].id = id}

\* INSERT INTO runs ... with no conflict clause: a new row whatever is there
InsertRow_only(table, id, status, config, started_at, error) ==
    Append(table, [id |-> id, status |-> status, config |-> config,
                   started_at |-> started_at, error |-> error])

\* INSERT OR REPLACE INTO runs ...: the row with the id is written anew
InsertRow_replace(table, id, status, config, started_at, error) ==
    IF RowsOf(table, id) = {}
    THEN Append(table, [id |-> id, status |-> status, config |-> config,
                        started_at |-> started_at, error |-> error])
    ELSE [i \in 1..Len(table) |->
            IF table[i].id = id
            THEN [id |-> id, status |-> status, config |-> config,
                  started_at |-> started_at, error |-> error]
            ELSE table[i]]

\* INSERT INTO runs ... ON CONFLICT(id) DO UPDATE SET status, ..., error:
\* a new row when no row has the id, else the row with the id takes the
\* given status and error
InsertRow(table, id, status, config, started_at, error) ==
    IF RowsOf(table, id) = {}
    THEN Append(table, [id |-> id, status |-> status, config |-> config,
                        started_at |-> started_at, error |-> error])
    ELSE [i \in 1..Len(table) |->
            IF table[i].id = id
            THEN [table[i] EXCEPT !.status = status, !.error = error]
            ELSE table[i]]

\* get_run_by_id: fetchone() of SELECT * FROM runs WHERE id = ? as a dict,
\* or None, written <<>>
get_run_by_id(table, id) ==
    IF RowsOf(table, id) = {} THEN <<>>
    ELSE <<table[CHOOSE i \in RowsOf(table, id) :
                     \A j \in RowsOf(table, id) : i <= j]>>

\* COUNT(*) FROM runs
CountAll(table) == <<Len(table)>>

\* SUM(1) FROM runs
SumStatus_any(table, st) == IF table = <<>> THEN <<>> ELSE <<Len(table)>>

\* SUM(CASE WHEN status = st THEN 1 ELSE 0 END) FROM runs: NULL, written
\* <<>>, on no row
SumStatus(table, st) ==
    IF table = <<>> THEN <<>>
    ELSE <<Cardinality({i \in 1..Len(table) : table[i].status = st})>>

\* row[...] or 0
OrZero(v) == IF v = <<>> THEN 0 ELSE IF v[1] = 0 THEN 0 ELSE v[1]

\* round(successful / total * 100, 1), in tenths of a percent
RateTenths(successful, total) == (successful * 2000 + total) \div (2 * total)

get_metrics(table) ==
    LET total == OrZero(CountAll(table))
        successful == OrZero(SumStatus(table, "completed"))
    IN  [total_runs   |-> total,
         successful   |-> successful,
         failed       |-> OrZero(SumStatus(table, "failed")),
         success_rate |-> IF total > 0 THEN RateTenths(successful, total)
                          ELSE 0]

DbInit ==
    /\ TextIdle
    /\ entry = "api"
    /\ hasKey = TRUE
    /\ DirInit
    /\ RateInit
    /\ JoinIdle
    /\ ScanIdle
    /\ ServiceInit
    /\ SemInit
    /\ StreamInit
    /\ ChatIdle
    /\ RouterIdle
    /\ ConfigIdle
    /\ runs_table = <<>>
    /\ saved = <<>>
    /\ answered = NoReply

DbFrame ==
    UNCHANGED <<tvars, frags, prose, closed, mtime, environ, cfg_ret, router, fvars, lvars, dvars, mvars, svars,
                stvars, entry, cvars>>

\* json.dumps(config) of the n-th save_run call: every call is given a
\* config of its own
ConfigJson(n) == <<"config", n>>

\* save_run(run_id, status, config=..., started_at=..., error=...);
\* started_at is written as the number of calls made before
DbSave(id, status) ==
    /\ Len(saved) < MaxSaves
    /\ runs_table' = InsertRow(runs_table, id, status,
                               ConfigJson(Len(saved)), Len(saved),
                               IF status = "failed" THEN "err" ELSE NoneVal)
    /\ saved' = Append(saved, [id |-> id, status |-> status])
    /\ answered' = NoReply
    /\ DbFrame

\* get_run_by_id(run_id)
DbGet(id) ==
    /\ answered = NoReply
    /\ answered' = [op |-> "get", id |-> id,
                 row |-> get_run_by_id(runs_table, id)]
    /\ UNCHANGED <<runs_table, saved>>
    /\ DbFrame

\* get_metrics()
DbMetrics ==
    /\ answered = NoReply
    /\ answered' = [op |-> "metrics", metrics |-> get_metrics(runs_table)]
    /\ UNCHANGED <<runs_table, saved>>
    /\ DbFrame

DbNext ==
    \/ \E id \in DbIds, status \in DbStatuses : DbSave(id, status)
    \/ \E id \in DbIds : DbGet(id)
    \/ DbMetrics

SpecDb == DbInit /\ [][DbNext]_vars

\* ------------------------------------- _extract_code_blocks on joined texts
\* inner texts of fragments: none holds the closing fence
InnerTexts == {<<>>, <<"txt">>, <<"FENCE_PY">>, <<"FENCE">>,
               <<"txt", "PIPELINE_COMPLETE">>}

\* prose: it holds no fence
ProseTexts == {<<>>, <<"txt">>, <<"PIPELINE_COMPLETE">>}

JoinInit ==
    /\ \E n \in 0..MaxFrags :
          /\ frags \in [1..n -> InnerTexts]
          /\ prose \in [1..(n+1) -> ProseTexts]
          /\ closed \in [1..n -> BOOLEAN]
    /\ text = JoinFrom(frags, prose, closed, 1)
    /\ classified = <<>>
    /\ entry = "lib"
    /\ hasKey = TRUE
    /\ DirInit
    /\ RateInit
    /\ DbIdle
    /\ ScanIdle
    /\ ServiceInit
    /\ SemInit
    /\ StreamInit
    /\ ChatIdle
    /\ RouterIdle
    /\ ConfigIdle

JoinNext == Classify

SpecJoin == JoinInit /\ [][JoinNext]_vars

\* ------------------------------------------- cleanup_old_workspaces and runs
\* the runs of the service over hours: of POST /run the cleanup, the new
\* working directory and the RUNS entry; of a run its writes to its
\* directory and its end
CleanupFrame ==
    UNCHANGED <<tvars, frags, prose, closed, runs_table, saved, answered,
                environ, cfg_ret, router, fvars, rate_limit_store, allowed,
                answer, nreq, hasKey, calls, work_dir, mvars, RUN_QUEUES,
                store, rcfg, rpc, rq, rerr, rbranch, stvars, entry, cvars>>

\* run_analysis: cleanup_old_workspaces(), os.makedirs(work_dir) and
\* RUNS[run_id] = {"status": "running", ...}
CleanupPost(r) ==
    /\ RUNS[r].status = "absent"
    /\ \A o \in RunIds : o < r => RUNS[o].status # "absent"
    /\ rdir' = [rdir EXCEPT ![r] = RunDir(r)]
    /\ dirs' = cleanup_old_workspaces(dirs) \cup {RunDir(r)}
    /\ mtime' = [mtime EXCEPT ![r] = now]
    /\ RUNS' = [RUNS EXCEPT ![r] = RunningEntry]
    /\ UNCHANGED now
    /\ CleanupFrame

\* the code of a run writes a file into its working directory
RunWrites(r) ==
    /\ RUNS[r].status = "running"
    /\ RunDir(r) \in dirs
    /\ mtime' = [mtime EXCEPT ![r] = now]
    /\ UNCHANGED <<now, RUNS, dirs, rdir>>
    /\ CleanupFrame

\* _run_sync gets to its end: every run of the service ends failed; a run
\* whose background task was not added or waits for a slot stays running
RunEnds(r) ==
    /\ RUNS[r].status = "running"
    /\ RUNS' = [RUNS EXCEPT ![r] = FailedEntry("TypeError")]
    /\ UNCHANGED <<now, mtime, dirs, rdir>>
    /\ CleanupFrame

\* time passes
HalfHourPasses ==
    /\ now < MaxHalfHours * HalfHour
    /\ now' = now + HalfHour
    /\ UNCHANGED <<mtime, RUNS, dirs, rdir>>
    /\ CleanupFrame

CleanupNext ==
    \/ \E r \in RunIds : CleanupPost(r)
    \/ \E r \in RunIds : RunWrites(r)
    \/ \E r \in RunIds : RunEnds(r)
    \/ HalfHourPasses

SpecCleanup == RateSpecInit /\ [][CleanupNext]_vars


\* ------------------------------------------------------------------ claims
Last(seq) == seq[Len(seq)]

NoToken == \A i \in 1..Len(messages) : ~is_pipeline_complete(messages[i])

Names(msgs) == [i \in 1..Len(msgs) |-> msgs[i].name]

\* run_workflow has returned after initiate_chat raised
ChatRaised == wpc = "returned" /\ ret # <<>> /\ ret[1].result = NoneVal

\* run_workflow has returned after initiate_chat returned
ChatEnded == wpc = "returned" /\ ret # <<>> /\ ret[1].result # NoneVal

C2_CompletionEnds ==
    [][(messages # <<>> /\ is_pipeline_complete(Last(messages))
          /\ calls' = calls)
          => (messages' = messages /\ nSelect' = nSelect
                /\ speaker' = speaker)]_vars

C2_Witness ==
    /\ wpc = "returned"
    /\ Len(messages) > 1
    /\ Len(messages) < max_round
    /\ is_pipeline_complete(Last(messages))
    /\ nSelect = Len(messages) - 1

\* C3 (as claimed): a text with PIPELINE_COMPLETE and a code fence is never
\* given the type review_approved.
C3_Original ==
    (classified # <<>> /\ Contains(text, "PIPELINE_COMPLETE") /\ HasFence(text))
       => classified[1].type # "review_approved"

\* the text outside of the code blocks _extract_code_blocks finds
RECURSIVE OutsideFrom(_, _)
OutsideFrom(content, p) ==
    IF p > Len(content) THEN <<>>
    ELSE IF content[p] = "FENCE_PY"
              /\ \E q \in (p+1)..Len(content) : content[q] = "NL_FENCE"
         THEN LET q == CHOOSE q \in (p+1)..Len(content) :
                          /\ content[q] = "NL_FENCE"
                          /\ \A k \in (p+1)..(q-1) : content[k] # "NL_FENCE"
              IN  OutsideFrom(content, q+1)
         ELSE <<content[p]>> \o OutsideFrom(content, p+1)

OnlyInCode(content) ==
    /\ Contains(content, "PIPELINE_COMPLETE")
    /\ ~Contains(OutsideFrom(content, 1), "PIPELINE_COMPLETE")

\* C4 (as claimed): the conversation does not end on a message whose only
\* PIPELINE_COMPLETE is inside a code block; it ends there only by the cap.
C4_Original ==
    (wpc = "over" /\ OnlyInCode(Last(messages).content))
       => Len(messages) = max_round

\* the replies of claim C5: one python block, exit code 0, the token and no
\* fence
C5_Scenario ==
    /\ Len(messages) >= 4
    /\ Len(_extract_code_blocks(messages[2].content)) = 1
    /\ messages[3].content = EXIT0
    /\ is_pipeline_complete(messages[4])
    /\ ~HasFence(messages[4].content)

\* C5: with these replies the speakers are Executor, Engineer, Executor,
\* Reviewer, the conversation is over after the fourth message and the
\* returned transcript has 4 messages.
C5_EndToEnd ==
    C5_Scenario =>
       /\ Names(messages) = <<Executor, Engineer, Executor, Reviewer>>
       /\ wpc \in {"over", "returned"}
       /\ wpc = "returned" =>
             /\ Len(ret[1].messages) = 4
             /\ Names(ret[1].messages) = Names(messages)

C5_Witness == C5_Scenario /\ wpc = "returned" /\ ret[1].result # NoneVal

\* C9: an exception of initiate_chat never leaves run_workflow: it returns
\* the messages recorded until then and the artifacts found in the working
\* directory.  (The one exception that leaves run_workflow is the ValueError
\* of get_config, raised before initiate_chat when no key is set.)
C9_ErrorContained ==
    /\ wpc \in {"idle", "initiate", "select", "over", "raised", "returned",
                "propagated"}
    /\ wpc = "propagated" => ~hasKey
    /\ ChatRaised =>
          /\ ret[1].messages = final_messages(messages)
          /\ ret[1].artifacts = discover_artifacts(ExistingDir(workdir))

C9_Witness ==
    /\ ChatRaised
    /\ Len(ret[1].messages) >= 2
    /\ ret[1].artifacts # {}

\* the position of a status on the path of a run
Rank(status) ==
    CASE status = "absent"  -> 0
      [] status = "pending" -> 1
      [] status = "running" -> 2
      [] status \in {"completed", "failed"} -> 3

Forward(old, new) ==
    /\ Rank(new) >= Rank(old)
    /\ old \in {"completed", "failed"} => new = old

\* C6: in RUNS and in the run store the status of a run only moves forward
\* on pending, running, completed or failed, and a status completed or
\* failed never changes again.
C6_StatusForward ==
    [][\A r \in RunIds :
          /\ Forward(RUNS[r].status, RUNS'[r].status)
          /\ Forward(store[r].status, store'[r].status)]_vars

C6_Witness ==
    \E r \in RunIds : RUNS[r].status = "failed" /\ store[r].status = "failed"

\* the run whose conversation it was has come to its end
Finished ==
    /\ wpc = "returned"
    /\ caller \in RunIds => rpc[caller] \in {"done", "raised"}

\* what the run shows of its outcome: its RUNS entry, or for a direct call
\* the returned dict
Outcome == IF caller \in RunIds THEN RUNS[caller] ELSE ret[1]

Shown(field) ==
    IF field \in DOMAIN Outcome THEN Outcome[field] ELSE NoneVal

\* C7 (as claimed): a run whose conversation raised after files were
\* written ends with status completed and a warning.
C7_Original ==
    (Finished /\ ChatRaised /\ ret[1].artifacts # {})
       => (Shown("status") = "completed" /\ Shown("warning") # NoneVal)

\* C8 (as claimed): a run whose conversation raised with no file in the
\* working directory ends with status failed and the error as its reason.
C8_Original ==
    (Finished /\ ChatRaised /\ ret[1].artifacts = {})
       => (Shown("status") = "failed" /\ Shown("error") # NoneVal)

DonePositions(r) ==
    {i \in 1..Len(RUN_QUEUES[r]) : RUN_QUEUES[r][i].type = "done"}

InitPositions(evs) ==
    {i \in 1..Len(evs) : evs[i].type = "phase_change"
                            /\ evs[i].phase = "initializing"}

TurnPositions(evs) ==
    {i \in 1..Len(evs) : evs[i].type \notin {"phase_change", "done"}}

InitFirst(evs) ==
    /\ Cardinality(InitPositions(evs)) <= 1
    /\ \A i \in InitPositions(evs), j \in TurnPositions(evs) : i < j

\* C11: of every run, of the service or direct, the sink takes the
\* initializing phase event at most once, and before every turn event.
C11_InitOnce ==
    /\ InitFirst(sink)
    /\ \A r \in RunIds : InitFirst(RUN_QUEUES[r])

C11_Witness ==
    /\ InitPositions(sink) = {1}
    /\ Cardinality(TurnPositions(sink)) >= 2

KeyOf(m) == StreamKey(m.name, m.content)

\* the stream keys of a sequence of messages or of turn events
RECURSIVE KeySeq(_)
KeySeq(ms) ==
    IF ms = <<>> THEN <<>> ELSE <<KeyOf(Head(ms))>> \o KeySeq(Tail(ms))

IsTurn(ev) == ev.type \notin {"phase_change", "done"}

\* C12: with a callback that takes every event, the messages of a run that
\* agree on the sender and on the first 80 characters of the content have
\* one event in the sink between them, that of the first of them.
C12_OneEventPerKey ==
    (caller = Lib /\ sinkKind = "ok") =>
        LET mkey == KeySeq(messages)
            turns == SelectSeq(sink, IsTurn)
            ekey == KeySeq(turns)
        IN  \A i \in 1..Len(messages) :
               \E j \in 1..Len(turns) :
                  /\ ekey[j] = mkey[i]
                  /\ \A k \in 1..Len(turns) : ekey[k] = mkey[i] => k = j
                  /\ \E f \in 1..i :
                        /\ mkey[f] = mkey[i]
                        /\ \A l \in 1..(f - 1) : mkey[l] # mkey[i]
                        /\ turns[j].content = messages[f].content

\* a repeat whose text differs after the first 80 characters, and one that
\* is the same text
C12_Witness ==
    /\ caller = Lib /\ sinkKind = "ok"
    /\ \E i, j \in 1..Len(messages) :
          /\ i < j
          /\ KeyOf(messages[i]) = KeyOf(messages[j])
          /\ messages[i].content # messages[j].content
    /\ \E i, j \in 1..Len(messages) :
          /\ i < j
          /\ messages[i] = messages[j]

\* C13: a callback that raises on every event it is handed (initializing
\* phase, turns, warning) changes nothing of the conversation: transcript,
\* speakers and returned value are those of the same call with a callback
\* that never raises.
C13_SinkErrorsContained ==
    caller = Lib =>
        /\ wpc = ref.wpc
        /\ messages = ref.messages
        /\ speaker = ref.speaker
        /\ ret = ref.ret

\* a call whose callback raised on the initializing event, on the turn
\* events and on the warning event, and that has returned
C13_Witness ==
    /\ caller = Lib /\ sinkKind = "raises"
    /\ ChatRaised
    /\ Len(messages) >= 3

\* the transcript without the messages whose stream key an earlier message
\* of it has
RECURSIVE Dedup(_, _)
Dedup(ms, seen) ==
    IF ms = <<>> THEN <<>>
    ELSE IF KeyOf(Head(ms)) \in seen THEN Dedup(Tail(ms), seen)
    ELSE <<Head(ms)>> \o Dedup(Tail(ms), seen \cup {KeyOf(Head(ms))})

Pairs(evs) == [i \in 1..Len(evs) |-> <<evs[i].name, evs[i].content>>]

\* a is b with some of its elements left out
RECURSIVE IsSubSeq(_, _)
IsSubSeq(a, b) ==
    IF a = <<>> THEN TRUE
    ELSE IF b = <<>> THEN FALSE
    ELSE IF Head(a) = Head(b) THEN IsSubSeq(Tail(a), Tail(b))
    ELSE IsSubSeq(a, Tail(b))

\* an event a stream took from the queue, not one it made up from RUNS
FromQueue(ev) == ~(ev.type = "done" /\ DOMAIN ev = {"type", "status"})

C15_Original ==
    \A r \in RunIds :
        /\ RUNS[r].status # "absent" => rpc[r] \notin {"none", "refused"}
        /\ rerr[r] = "DbError" => RUNS[r].status # "failed"

\* C16: while no key of a completion provider is set, nothing of a run
\* exists: no RUNS entry, no row of the run store, no working directory.
C16_Original ==
    ~hasKey =>
        /\ dirs = {}
        /\ \A r \in RunIds :
              RUNS[r].status = "absent" /\ store[r].status = "absent"

\* the runs of the service that have a working directory
Started == {r \in RunIds : rdir[r] # <<>>}

Executing ==
    {r \in RunIds : rpc[r] \in {"call", "workflow", "put", "runs", "save"}}

\* C18: never more than MAX_CONCURRENT_RUNS runs are inside _run_sync, and
\* an accepted run that had to wait for a slot goes on once a slot is
\* given to it: it neither fails at the semaphore nor sleeps on with the
\* slot it was given.
C18_Original ==
    /\ Cardinality(Executing) <= MAX_CONCURRENT_RUNS
    /\ \A r \in RunIds : rpc[r] \notin {"stuck", "loop_error"}

\* the requests of a client that check_rate_limit allowed and whose
\* timestamps lie in the window of RATE_LIMIT_WINDOW seconds that ends at t
InWindow(ip, t) ==
    {i \in 1..Len(allowed[ip]) :
        allowed[ip][i] > t - RATE_LIMIT_WINDOW /\ allowed[ip][i] <= t}

\* C19: for every client and every window of 60 seconds, at most 10 of the
\* requests check_rate_limit allowed have their timestamp in the window; and
\* a request of a client that has 10 in the window ending now is answered
\* 429 and gets no further into run_analysis.
C19_RateLimit ==
    /\ [](\A ip \in IPs : \A t \in 0..now :
            Cardinality(InWindow(ip, t)) <= RATE_LIMIT_MAX)
    /\ [][\A ip \in IPs :
            (nreq' = nreq + 1 /\ answer'.ip = ip
                /\ Cardinality(InWindow(ip, now)) = RATE_LIMIT_MAX)
            => (answer'.code = "429" /\ allowed' = allowed)]_vars

\* a client was refused its eleventh request of a window and allowed one
\* more once the window had moved on
C19_Witness ==
    \E ip \in IPs :
        /\ Len(allowed[ip]) > RATE_LIMIT_MAX
        /\ nreq > Len(allowed["ip1"]) + Len(allowed["ip2"])
        /\ answer = [ip |-> ip, code |-> "passed"]

\* C20: discover_artifacts on a path that names nothing or on an empty
\* directory returns nothing; what it returns are regular files of the
\* directory, and the type goes by the extension whatever its case: .md
\* markdown, .json json, .png .jpg .jpeg image, .py code, .txt text, .html
\* html, and file for an extension the table does not have.
C20_Discover ==
    scanned =>
        /\ (~scan_dir.exists \/ scan_dir.entries = {}) => artifacts = {}
        /\ {a.name : a \in artifacts}
              \subseteq {f \in scan_dir.entries : f.kind = "file"}
        /\ \A a \in artifacts :
              /\ a.name.ext \in {".md", ".MD"} => a.type = "markdown"
              /\ a.name.ext = ".json" => a.type = "json"
              /\ a.name.ext \in {".png", ".PNG", ".jpg", ".jpeg"}
                    => a.type = "image"
              /\ a.name.ext = ".py" => a.type = "code"
              /\ a.name.ext = ".txt" => a.type = "text"
              /\ a.name.ext = ".html" => a.type = "html"
              /\ a.name.ext \in {".log", ""} => a.type = "file"

\* a scan of a directory with .md, .json and .PNG files gave three entries
C20_Witness ==
    /\ scanned
    /\ Cardinality(artifacts) = MaxFiles
    /\ {a.type : a \in artifacts} = {"markdown", "json", "image"}
    /\ \E a \in artifacts : a.name.ext = ".PNG"

\* C21: discover_artifacts returns exactly the regular files directly inside
\* work_dir: each of them is in the result, and no directory and no file of
\* a subdirectory is.
C21_Original ==
    (scanned /\ scan_dir.exists) =>
        {a.name : a \in artifacts}
            = {f \in scan_dir.entries :
                  f.kind = "file" /\ f.where \in {"top", "hidden"}}

\* C22: for a text joined from N fenced fragments and the prose around them
\* (no inner text holds the closing fence, no prose holds a fence),
\* _extract_code_blocks returns the N inner texts, in the order of the text.
C22_ExtractJoined ==
    (classified # <<>> /\ prose # <<>> /\ \A i \in 1..Len(closed) : closed[i])
        => classified[1].code_blocks = frags

\* two fragments with prose between them were extracted, one of them empty
\* and one that holds an opening fence itself
C22_Witness ==
    /\ classified # <<>>
    /\ Len(frags) = MaxFrags
    /\ prose[2] # <<>>
    /\ \E i \in 1..Len(frags) : frags[i] = <<>>
    /\ \E i \in 1..Len(frags) : frags[i] = <<"FENCE_PY">>
    /\ \A i \in 1..Len(closed) : closed[i]
    /\ classified[1].code_blocks = frags

\* the steps of the background task of run r
RunStep(r) ==
    \/ SemCheck(r)
    \/ RunSyncStart(r)
    \/ RunSyncCall(r)
    \/ RunSyncPutDone(r)
    \/ RunSyncSetRuns(r)
    \/ RunSyncSaveRun(r)

\* C23: every run POST /run accepted reaches completed or failed.  On a
\* finite run this asks that a run which was accepted and is still running
\* has a step of its background task to take, or waits for a slot another
\* run will release.
C23_Original ==
    \A r \in RunIds :
        (rpc[r] \notin {"none", "refused"} /\ RUNS[r].status = "running")
            => (ENABLED RunStep(r) \/ rpc[r] = "waiting")

\* the save_run calls made for this id
SavesOf(id) == {i \in 1..Len(saved) : saved[i].id = id}

\* the status given by the most recent of them
LastSaved(id) ==
    saved[CHOOSE i \in SavesOf(id) : \A j \in SavesOf(id) : j <= i].status

\* C24: after any sequence of save_run calls, get_run_by_id(id) returns None
\* when id was never saved and otherwise one record with this id and the
\* status of the most recent save_run for id; no two rows of the table have
\* the same id.
C24_SaveThenGet ==
    /\ \A i, j \in 1..Len(runs_table) :
          runs_table[i].id = runs_table[j].id => i = j
    /\ answered.op = "get" =>
          IF SavesOf(answered.id) = {}
          THEN answered.row = <<>>
          ELSE /\ Len(answered.row) = 1
               /\ answered.row[1].id = answered.id
               /\ answered.row[1].status = LastSaved(answered.id)

\* a run saved as running and then as failed is read back as failed, with
\* another run in the table
C24_Witness ==
    /\ answered.op = "get"
    /\ Cardinality(SavesOf(answered.id)) > 1
    /\ saved[CHOOSE i \in SavesOf(answered.id) : TRUE].status = "running"
    /\ answered.row # <<>>
    /\ answered.row[1].status = "failed"
    /\ Len(runs_table) > 1

\* the ids saved so far with this status in their most recent save_run
StoredAs(st) == {id \in DbIds : SavesOf(id) # {} /\ LastSaved(id) = st}

\* C25: get_metrics reports total_runs = the number of stored runs,
\* successful = the number of them that are completed, failed = the number
\* that are failed, so successful + failed <= total_runs, and success_rate 0
\* when no run is stored.
C25_Metrics ==
    answered.op = "metrics" =>
        /\ answered.metrics.total_runs
              = Cardinality({id \in DbIds : SavesOf(id) # {}})
        /\ answered.metrics.successful = Cardinality(StoredAs("completed"))
        /\ answered.metrics.failed = Cardinality(StoredAs("failed"))
        /\ answered.metrics.successful + answered.metrics.failed
              <= answered.metrics.total_runs
        /\ saved = <<>> => answered.metrics.success_rate = 0

\* two completed runs and a failed one, one of them saved twice
C25_Witness ==
    /\ answered.op = "metrics"
    /\ Len(saved) = MaxSaves
    /\ answered.metrics.total_runs < Len(saved)
    /\ answered.metrics.successful > answered.metrics.failed
    /\ answered.metrics.failed > 0
    /\ answered.metrics.success_rate > 0

\* C26: with GROQ_API_KEY set and GROQ_MODEL not set, get_config returns a
\* configuration whose first config_list entry has model
\* openai/gpt-oss-120b, the Groq base_url and the Groq key as api_key.
C26_Original ==
    (cfg_ret # <<>> /\ Truthy(environ["GROQ_API_KEY"])
        /\ environ["GROQ_MODEL"] = Unset)
    => /\ cfg_ret[1].exc = NoneVal
       /\ cfg_ret[1].config_list[1].model = "openai/gpt-oss-120b"
       /\ cfg_ret[1].config_list[1].base_url = GROQ_BASE_URL
       /\ cfg_ret[1].config_list[1].api_key = environ["GROQ_API_KEY"]

\* C27 as claimed: whenever the last speaker is the Executor,
\* select_next_speaker returns the Reviewer, for every transcript.
C27_Original ==
    (router.next # <<>> /\ router.last_speaker = Executor)
        => router.next = <<Reviewer>>

\* C27: when the last speaker is the Executor, select_next_speaker returns
\* the Reviewer for a transcript of more than one message, whatever its
\* content, and the Engineer for a transcript of at most one message (the
\* seed task message).
C27_ExecutorRouting ==
    (router.next # <<>> /\ router.last_speaker = Executor)
        => router.next = IF Len(router.messages) <= 1 THEN <<Engineer>>
                         ELSE <<Reviewer>>

\* the seed message of the Executor was routed
C27_Witness ==
    /\ router.last_speaker = Executor
    /\ Len(router.messages) = 1
    /\ router.messages[1].name = Executor
    /\ router.next = <<Engineer>>

\* C28: for a non-empty transcript, select_next_speaker returns the
\* Executor when the last speaker is the Engineer and the Engineer when the
\* last speaker is the Reviewer, whatever the last message and the length.
C28_EngineerReviewerRouting ==
    (router.next # <<>> /\ router.messages # <<>>)
        => /\ router.last_speaker = Engineer => router.next = <<Executor>>
           /\ router.last_speaker = Reviewer => router.next = <<Engineer>>

\* a Reviewer turn that holds the completion token was routed to the
\* Engineer
C28_Witness ==
    /\ router.last_speaker = Reviewer
    /\ Len(router.messages) = MaxMsgs
    /\ router.messages[MaxMsgs] = [name |-> Reviewer, content |-> APPROVE]
    /\ router.next = <<Engineer>>

\* C29: select_next_speaker returns one of the three agents for every last
\* speaker and every transcript, empty or not, and the Engineer for a last
\* speaker that is none of the three.
C29_RouterTotal ==
    router.next # <<>>
        => /\ Len(router.next) = 1
           /\ router.next[1] \in {Executor, Engineer, Reviewer}
           /\ router.last_speaker \notin {Executor, Engineer, Reviewer}
                 => router.next = <<Engineer>>

\* an agent that is none of the three was the last speaker of a transcript
\* that is not empty
C29_Witness ==
    /\ router.last_speaker = "Manager"
    /\ router.messages # <<>>
    /\ router.next = <<Engineer>>

\* C30: a conversation that ends before the round cap, by a message that
\* holds PIPELINE_COMPLETE, ends on a Reviewer turn: no message of the
\* Executor, the seed task message included, and no message of the Engineer
\* ends it.
C30_Original ==
    (wpc = "over" /\ Len(messages) < max_round)
        => messages[Len(messages)].name = Reviewer

\* the step appends an Executor message that reports a failed execution
\* and holds no completion token
FailedReportAdded ==
    /\ Len(messages') = Len(messages) + 1
    /\ messages'[Len(messages')] = [name |-> Executor, content |-> EXIT1]

\* what the claim says of such a message: it is an execution-output turn,
\* the conversation goes on and the next speaker is the Reviewer
HandedToReviewer ==
    /\ MsgType(messages'[Len(messages')].content) = "code_execution"
    /\ wpc' = "select"
    /\ select_next_speaker(speaker', messages') = Reviewer

\* C31 as claimed: an Executor message that reports a failed execution
\* never ends the run; it is an execution-output turn and the Reviewer is
\* next.
C31_Original == [][FailedReportAdded => HandedToReviewer]_vars

\* C31: an Executor message that reports a failed execution and is not the
\* message at which the round cap is reached does not end the run; it is
\* an execution-output turn and the Reviewer is next.
C31_FailedExecution ==
    [][(FailedReportAdded /\ Len(messages') < max_round)
          => HandedToReviewer]_vars

\* the Reviewer spoke right after a failed execution report
C31_Witness ==
    \E i \in 1..(Len(messages) - 1) :
        /\ messages[i] = [name |-> Executor, content |-> EXIT1]
        /\ messages[i + 1].name = Reviewer

\* the text holds the exit-code marker, in either letter case
HasExitMarker(content) ==
    \E i \in 1..Len(content) : content[i] \in {"exitcode:", "Exitcode:"}

\* C32: a text with the exit-code marker, in any letter case, is typed
\* code_execution; a text without it and without PIPELINE_COMPLETE is typed
\* code_generation when at least one code fragment is extracted from it and
\* agent_message when none is.
C32_Classification ==
    classified # <<>> =>
        IF HasExitMarker(text)
        THEN classified[1].type = "code_execution"
        ELSE (\A i \in 1..Len(text) : text[i] # "PIPELINE_COMPLETE")
                => classified[1].type =
                       IF classified[1].code_blocks # <<>>
                       THEN "code_generation" ELSE "agent_message"

\* a text with a code block, the completion token and the marker written
\* with a capital letter was typed code_execution
C32_Witness ==
    /\ classified # <<>>
    /\ classified[1].type = "code_execution"
    /\ classified[1].code_blocks # <<>>
    /\ \E i \in 1..Len(text) : text[i] = "PIPELINE_COMPLETE"
    /\ \E i \in 1..Len(text) : text[i] = "Exitcode:"
    /\ \A i \in 1..Len(text) : text[i] # "exitcode:"

\* the inner texts of the blocks of fs that have their closing fence, in order
RECURSIVE WellFormedFrom(_, _, _)
WellFormedFrom(fs, cl, i) ==
    IF i > Len(fs) THEN <<>>
    ELSE (IF cl[i] THEN <<fs[i]>> ELSE <<>>) \o WellFormedFrom(fs, cl, i + 1)

\* C33: for a text joined from fenced blocks of which some lack their closing
\* fence, _extract_code_blocks returns nothing for a block without closing
\* fence and the inner text, verbatim, of every block that has one.
C33_Original ==
    (classified # <<>> /\ prose # <<>>)
        => classified[1].code_blocks = WellFormedFrom(frags, closed, 1)

\* the speaker of message i in the cycle: the seed is the Executor's, then
\* Engineer, Executor, Reviewer, Engineer, ...
CycleSpeaker(i) ==
    IF i = 1 THEN Executor
    ELSE IF (i - 2) % 3 = 0 THEN Engineer
    ELSE IF (i - 2) % 3 = 1 THEN Executor
    ELSE Reviewer

\* C34: in every run the seed message is the Executor's and the replies
\* follow the cycle Engineer, Executor, Reviewer: consecutive messages have
\* different speakers, a Reviewer turn directly follows an Executor turn and
\* an Executor reply directly follows an Engineer turn.
C34_Cycle ==
    /\ \A i \in 1..Len(messages) : messages[i].name = CycleSpeaker(i)
    /\ \A i \in 1..(Len(messages) - 1) :
          /\ messages[i].name # messages[i + 1].name
          /\ messages[i + 1].name = Reviewer => messages[i].name = Executor
          /\ messages[i + 1].name = Executor => messages[i].name = Engineer

\* a transcript that went through the cycle twice
C34_Witness ==
    /\ Len(messages) >= 8
    /\ messages[7].name = Reviewer
    /\ messages[8].name = Engineer

\* the Reviewer turns of the transcript
ReviewerTurns == {i \in 1..Len(messages) : messages[i].name = Reviewer}

\* C35: the transcript of a run holds at most 3 Reviewer turns.
C35_ReviewerTurns == Cardinality(ReviewerTurns) <= 3

\* a run stopped by the round cap after its third Reviewer turn
C35_Witness ==
    /\ Cardinality(ReviewerTurns) = 3
    /\ Len(messages) = max_round
    /\ wpc = "over"

\* the done events consumer c has received
DonesGot(c) ==
    {i \in 1..Len(streams[c].got) : streams[c].got[i].type = "done"}

\* C36: the status of a done event a stream consumer has received is the
\* final status of the run in RUNS: the status RUNS holds once the run is
\* over, and before that the status the one step _run_sync has left before
\* its save_run writes to RUNS.
C36_DoneStatus ==
    \A c \in StreamIds : \A i \in DonesGot(c) :
       LET r == streams[c].run
           e == streams[c].got[i]
       IN  /\ e.status \in {"completed", "failed"}
           /\ IF Terminal(r) THEN e.status = RUNS[r].status
              ELSE rpc[r] = "runs" /\ e.status = rbranch[r]

\* one consumer took the done event from the queue, another found the queue
\* empty and was given the status of RUNS, and the run is over
C36_Witness ==
    \E c, d \in StreamIds :
       /\ c # d
       /\ streams[c].run \in RunIds
       /\ streams[c].run = streams[d].run
       /\ Terminal(streams[c].run)
       /\ \E i \in DonesGot(c) :
             streams[c].got[i] = DoneEvent("failed", "TypeError")
       /\ \E i \in DonesGot(d) : streams[d].got[i] = StatusDone("failed")

\* consumer c reads the stream of a run that is over
ReadsFinished(c) ==
    /\ streams[c].pc \in {"open", "empty"}
    /\ RUNS[streams[c].run].status \in {"completed", "failed"}

\* the stream of consumer c has ended with its one done event
EndedWithDone(c) ==
    /\ streams[c].pc = "closed"
    /\ DonesGot(c) = {Len(streams[c].got)}

\* C37: a consumer receives at most one done event, as the last event of its
\* stream, and the stream is ended when it has one; and a consumer that reads
\* the stream of a run that is over and does not go away gets to the end of
\* its stream, with exactly one done event.
C37_StreamEnds ==
    /\ [](\A c \in StreamIds :
            /\ DonesGot(c) \subseteq {Len(streams[c].got)}
            /\ (DonesGot(c) # {} \/ streams[c].pc = "closed")
                  => EndedWithDone(c))
    /\ \A c \in StreamIds :
          ReadsFinished(c) ~> (EndedWithDone(c) \/ streams[c].pc = "gone")

\* two consumers of one run: one read the run's events and its done event
\* from the queue, the other was given the one done event made up from RUNS
C37_Witness ==
    \E c, d \in StreamIds :
       /\ streams[c].run = streams[d].run
       /\ EndedWithDone(c)
       /\ Len(streams[c].got) >= 2
       /\ EndedWithDone(d)
       /\ streams[d].got = <<StatusDone("failed")>>

\* the runs with status running in RUNS
RunningRuns == {r \in RunIds : RUNS[r].status = "running"}

\* C38: at any time at most MAX_CONCURRENT_RUNS runs have status running in
\* RUNS (POST /run creates no run when that many are running).
C38_Original == Cardinality(RunningRuns) <= MAX_CONCURRENT_RUNS

\* C39: the working directory of a run whose status is running exists:
\* cleanup_old_workspaces never deletes it.
C39_Original ==
    \A r \in RunIds : RUNS[r].status = "running" => RunDir(r) \in dirs

\* the row of the table with this id, <<>> when there is none
RowFor(table, id) ==
    IF RowsOf(table, id) = {} THEN <<>>
    ELSE <<table[CHOOSE i \in RowsOf(table, id) : TRUE]>>

\* C40: a save_run on an id that is stored changes of that row nothing but
\* status and error (and the other columns of the UPDATE list), its config
\* and started_at stay as stored, no row is added, and the row of every
\* other id stays as it is.
C40_Upsert ==
    [][\A id \in DbIds :
          LET before == RowFor(runs_table, id)
              after == RowFor(runs_table', id)
              saves == /\ Len(saved') = Len(saved) + 1
                       /\ saved'[Len(saved')].id = id
          IN  before # <<>> =>
                 /\ after # <<>>
                 /\ after[1].config = before[1].config
                 /\ after[1].started_at = before[1].started_at
                 /\ IF saves
                    THEN /\ Len(runs_table') = Len(runs_table)
                         /\ after[1].status = saved'[Len(saved')].status
                    ELSE after = before
      ]_vars

\* a run saved as running and later as failed holds the config and the
\* started_at of its first save_run, with another run saved in between
C40_Witness ==
    \E i \in 1..Len(runs_table) :
       LET row == runs_table[i]
           first == CHOOSE k \in SavesOf(row.id) :
                       \A j \in SavesOf(row.id) : k <= j
           last == CHOOSE k \in SavesOf(row.id) :
                      \A j \in SavesOf(row.id) : j <= k
       IN  /\ last > first + 1
           /\ saved[first].status = "running"
           /\ row.status = "failed"
           /\ row.error = "err"
           /\ row.config = ConfigJson(first - 1)
           /\ row.started_at = first - 1
           /\ Len(runs_table) > 1
====
